---- MODULE Spec2Model ----
(***************************************************************************)
(* Model of hurr_durr/watcher.py: the board poller (ChanWatcher), the      *)
(* thread pollers (ThreadWatcher) it spawns, and the attachment            *)
(* fetch/verify callback, running on one tornado IOLoop.  Every callback   *)
(* of the loop is one atomic action.  The handler (sink) is observed       *)
(* through history variables that count its calls.                         *)
(***************************************************************************)
EXTENDS Integers, Sequences, FiniteSets, TLC

\* ------------------------------------------------------------------ bounds
MaxThread == 2      \* thread (item) IDs are 1..MaxThread
MaxSpawn == 2       \* ThreadWatcher objects constructed in one run
MaxPostNo == 3      \* post (sub-item) numbers are 1..MaxPostNo
MaxDocLen == 3      \* posts in one detail document
MaxTim == 1         \* attachment name fragments ('tim') are 1..MaxTim
MaxPages == 2       \* pages in one board index
MaxPerPage == 1     \* thread summaries on one page
MaxLastMod == 2     \* Last-Modified header values are 1..MaxLastMod
MaxHeld == 2        \* posts FileHandler is given for a thread between two flushes
MaxHeldPost == 2    \* the posts FileHandler is given are numbered 1..MaxHeldPost
MaxDay == 2         \* days the run lasts
MaxFileThread == 1  \* the threads FileHandler is called for are 1..MaxFileThread

ThreadIds == 1..MaxThread
PostNos == 1..MaxPostNo

\* ---------------------------------------------------- checksums (md5, hex, base64)
\* Bytes are 0..255; a text is a sequence of one-character strings.
HexDigits == <<"0", "1", "2", "3", "4", "5", "6", "7",
               "8", "9", "a", "b", "c", "d", "e", "f">>

B64Alphabet == <<"A", "B", "C", "D", "E", "F", "G", "H", "I", "J", "K", "L", "M",
                 "N", "O", "P", "Q", "R", "S", "T", "U", "V", "W", "X", "Y", "Z",
                 "a", "b", "c", "d", "e", "f", "g", "h", "i", "j", "k", "l", "m",
                 "n", "o", "p", "q", "r", "s", "t", "u", "v", "w", "x", "y", "z",
                 "0", "1", "2", "3", "4", "5", "6", "7", "8", "9", "+", "/">>

B64Pad == "="

\* binascii.hexlify: two lowercase hex digits per byte, high nibble first.
RECURSIVE hexlify(_)
hexlify(bytes) ==
    IF bytes = <<>> THEN <<>>
    ELSE <<HexDigits[(Head(bytes) \div 16) + 1], HexDigits[(Head(bytes) % 16) + 1]>>
         \o hexlify(Tail(bytes))

B64Value(c) == (CHOOSE i \in 1..64 : B64Alphabet[i] = c) - 1

\* One base64 quantum: four characters carry 24 bits; '=' padding at the end
\* drops the bytes it stands for.
B64Quantum(q) ==
    LET v(i) == IF q[i] = B64Pad THEN 0 ELSE B64Value(q[i])
        n == ((v(1) * 64 + v(2)) * 64 + v(3)) * 64 + v(4)
        b1 == n \div 65536
        b2 == (n \div 256) % 256
        b3 == n % 256
    IN IF q[3] = B64Pad THEN <<b1>>
       ELSE IF q[4] = B64Pad THEN <<b1, b2>>
       ELSE <<b1, b2, b3>>

\* base64.b64decode of a correctly padded text.
RECURSIVE b64decode(_)
b64decode(text) ==
    IF Len(text) < 4 THEN <<>>
    ELSE B64Quantum(SubSeq(text, 1, 4)) \o b64decode(SubSeq(text, 5, Len(text)))

\* Attachment bodies the image server can return.
Data == {"a", "b"}

\* hashlib.md5(data).digest() for the bodies of Data (RFC 1321 values).
md5 ==
    [d \in Data |->
        IF d = "a"
        THEN <<12, 193, 117, 185, 192, 241, 182, 168, 49, 195, 153, 226, 105, 119, 38, 97>>
        ELSE <<146, 235, 95, 254, 230, 174, 47, 236, 58, 215, 28, 119, 117, 49, 87, 143>>]

\* m.hexdigest()
hexdigest == [d \in Data |-> hexlify(md5[d])]

\* The 'md5' field the upstream puts in a post: base64 of a 16-byte digest
\* (here the digest of body "a", so that body "b" is a mismatch).
Md5OfA == <<"D", "M", "F", "1", "u", "c", "D", "x", "t", "q", "g", "x",
            "w", "5", "n", "i", "a", "X", "c", "m", "Y", "Q", "=", "=">>
Md5Fields == {Md5OfA}

\* checksum = hexlify(b64decode(p['md5']))
checksum == [m \in Md5Fields |-> hexlify(b64decode(m))]

\* ------------------------------------------------------------ upstream documents
NoTim == 0          \* the post has no 'tim' key (no attachment)
Exts == {".jpg"}
NoMd5 == <<>>

Posts ==
    {[no |-> n, tim |-> NoTim, ext |-> "", md5 |-> NoMd5] : n \in PostNos}
    \cup [no : PostNos, tim : 1..MaxTim, ext : Exts, md5 : Md5Fields]

\* A detail document lists each post number once (post numbers are unique
\* within their thread).
Docs ==
    {d \in UNION {[1..k -> Posts] : k \in 0..MaxDocLen} :
        \A i, j \in DOMAIN d : i # j => d[i].no # d[j].no}

\* Response bodies of the detail endpoint: not JSON at all (loads raises
\* ValueError), JSON without a 'posts' list, or a document.
Bodies ==
    {[kind |-> "malformed", posts |-> <<>>], [kind |-> "noposts", posts |-> <<>>]}
    \cup {[kind |-> "posts", posts |-> d] : d \in Docs}

NoBody == [kind |-> "malformed", posts |-> <<>>]
NoHeader == -1      \* the response has no Last-Modified header
CreationTime == 0   \* datetime.now() in the constructor

Codes == {200, 304, 404, 599}

DetailResponses ==
    {[code |-> c, lm |-> NoHeader, body |-> NoBody] : c \in Codes \ {200}}
    \cup [code : {200}, lm : {NoHeader} \cup (1..MaxLastMod), body : Bodies]

Pages == UNION {[1..k -> ThreadIds] : k \in 0..MaxPerPage}
Indexes == UNION {[1..k -> Pages] : k \in 0..MaxPages}

\* Response bodies of the board index: not JSON, JSON of another shape, or
\* a list of pages.
IndexResponses ==
    {[code |-> 599, kind |-> "malformed", pages |-> <<>>],
     [code |-> 200, kind |-> "malformed", pages |-> <<>>],
     [code |-> 200, kind |-> "badshape", pages |-> <<>>]}
    \cup {[code |-> 200, kind |-> "pages", pages |-> ix] : ix \in Indexes}

ImageResponses ==
    {[code |-> c, data |-> "a"] : c \in {404, 599}} \cup [code : {200}, data : Data]

\* ------------------------------------------------------------------- state
VARIABLES
    images,             \* ChanWatcher._images
    previous_threads,   \* ChanWatcher._previous_threads
    watchers,           \* ChanWatcher._watchers: sequence of ThreadWatcher ids
    chanPc,             \* board poller: "init", "fetch", "timer" or "none"
    obj,                \* the ThreadWatcher objects, in construction order
    imgFetches,         \* attachment fetches in flight
    postCalls,          \* history: handler.post calls per watcher and post number
    prunedCalls,        \* history: handler.pruned calls per thread
    postAfterPruned,    \* history: threads that got a post after a pruned
    imgCalls,           \* history: handler.img calls per thread and filename
    imgFailed,          \* history: <<watcher, filename>> of fetches that delivered nothing
    lastStep,           \* history: what the last callback did
    last200,            \* history: Last-Modified of the last 200 each watcher handled
    _active_threads,    \* FileHandler._active_threads: thread id -> held posts
    _thread_roots,      \* FileHandler._thread_roots: thread id -> directory
    day,                \* the day time.strftime reports
    dirs,               \* file system: the directories
    jsonFiles,          \* file system: path -> posts of a written thread file
    imgFiles,           \* file system: path -> bytes of a written image
    postLog,            \* history: FileHandler.post calls per thread since it was last flushed
    stored,             \* history: <<thread, filename>> FileHandler.img has written
    fhStep              \* history: what the last FileHandler call did

watchVars == <<images, previous_threads, watchers, chanPc, obj, imgFetches,
               postCalls, prunedCalls, postAfterPruned, imgCalls, imgFailed, lastStep,
               last200>>

fileVars == <<_active_threads, _thread_roots, day, dirs, jsonFiles, imgFiles,
              postLog, stored, fhStep>>

vars == <<watchVars, fileVars>>

Filenames == (1..MaxTim) \X Exts

NoStep ==
    [kind |-> "none", wid |-> 0, code |-> 0, body |-> NoBody, parsed |-> FALSE,
     before |-> {}, nobj |-> 0,
     posted |-> <<>>, asked |-> <<>>, issued |-> <<>>, img |-> FALSE,
     data |-> "a", md5 |-> NoMd5, pages |-> <<>>, prev |-> {}, spawned |-> <<>>,
     lm |-> NoHeader, ims |-> NoHeader, raisedNo |-> 0]

\* --------------------------------------------------------- ThreadWatcher
\* Variant: a new watcher takes post 1 as delivered.
NewWatcherPreset(t, pull) ==
    [thread_id |-> t, pull_images |-> pull, downloaded_pictures |-> {},
     last_modified |-> CreationTime, posts_handled |-> {1}, working |-> TRUE,
     pc |-> "new"]

\* ThreadWatcher.__init__
NewWatcher(t, pull) ==
    [thread_id |-> t, pull_images |-> pull, downloaded_pictures |-> {},
     last_modified |-> CreationTime, posts_handled |-> {}, working |-> TRUE,
     pc |-> "new"]

\* '{filename}{extension}'.format(filename=p['tim'], extension=p['ext'])
Filename(p) == <<p.tim, p.ext>>

\* Variants of the filter: none at all, and the membership test inverted.
NotHandledUnfiltered(posts, handled) == posts
NotHandledInverted(posts, handled) == SelectSeq(posts, LAMBDA p : p.no \in handled)

\* filter(lambda post: post['no'] not in self._posts_handled, posts); the list
\* is built before the loop runs (Python 2 filter).
NotHandled(posts, handled) == SelectSeq(posts, LAMBDA p : p.no \notin handled)

\* Variant: the pull_images switch is not looked at.
WantsImageAlways(self, p) ==
    /\ p.tim # NoTim
    /\ Filename(p) \notin self.downloaded_pictures

\* self._pull_images and 'tim' in p, then filename not in self._downloaded_pictures
WantsImage(self, p) ==
    /\ self.pull_images
    /\ p.tim # NoTim
    /\ Filename(p) \notin self.downloaded_pictures

\* The positions of a post list at which handler.download_img is consulted.
Consulted(self, new) == {i \in DOMAIN new : WantsImage(self, new[i])}

RECURSIVE SelectIdx(_, _, _)
SelectIdx(i, n, S) ==
    IF i > n THEN <<>>
    ELSE (IF i \in S THEN <<i>> ELSE <<>>) \o SelectIdx(i + 1, n, S)

\* What handler.download_img may answer while watcher w handles response r:
\* a boolean for each position at which it is consulted.
Answers(w, r) ==
    IF r.code = 200 /\ r.lm # NoHeader /\ r.body.kind = "posts"
    THEN [Consulted(obj[w], NotHandled(r.body.posts, obj[w].posts_handled)) -> BOOLEAN]
    ELSE {<<>>}

\* Variant: the answer of download_img is not looked at.
PulledAll(cons, dl) == cons

\* if self._handler.download_img(self._thread_id, filename): the consulted
\* positions whose fetch is issued.
Pulled(cons, dl) == {i \in cons : dl[i]}

\* ThreadWatcher._parse_thread; dl[i] is what handler.download_img answers
\* for the i-th unhandled post.
_parse_thread(w, posts, dl) ==
    LET self == obj[w]
        new == NotHandled(posts, self.posts_handled)
        asked == SelectIdx(1, Len(new), Consulted(self, new))
        pulled == SelectIdx(1, Len(new), Pulled(Consulted(self, new), dl))
    IN [posts_handled |-> self.posts_handled \cup {new[i].no : i \in DOMAIN new},
        consulted |-> Consulted(self, new),
        posted |-> [i \in DOMAIN new |-> new[i].no],
        asked |-> [k \in DOMAIN asked |-> <<Filename(new[asked[k]]), dl[asked[k]]>>],
        fetches |-> [k \in DOMAIN pulled |->
                        [wid |-> w, no |-> new[pulled[k]].no,
                         filename |-> Filename(new[pulled[k]]),
                         checksum |-> checksum[new[pulled[k]].md5],
                         md5 |-> new[pulled[k]].md5]],
        raises |-> "none", raisedNo |-> 0]

\* hurr_durr/__init__.py, ThreadWatcher._parse_thread:
\* if not self._handler.download_img(self._thread_id, filename): the consulted
\* positions whose fetch is issued.
pkg_Pulled(cons, dl) == {i \in cons : ~dl[i]}

\* hurr_durr/__init__.py, ThreadWatcher._parse_thread; dl[i] is what
\* handler.download_img answers for the i-th unhandled post.
pkg_parse_thread(w, posts, dl) ==
    LET self == obj[w]
        new == NotHandled(posts, self.posts_handled)
        asked == SelectIdx(1, Len(new), Consulted(self, new))
        pulled == SelectIdx(1, Len(new), pkg_Pulled(Consulted(self, new), dl))
    IN [posts_handled |-> self.posts_handled \cup {new[i].no : i \in DOMAIN new},
        consulted |-> Consulted(self, new),
        posted |-> [i \in DOMAIN new |-> new[i].no],
        asked |-> [k \in DOMAIN asked |-> <<Filename(new[asked[k]]), dl[asked[k]]>>],
        fetches |-> [k \in DOMAIN pulled |->
                        [wid |-> w, no |-> new[pulled[k]].no,
                         filename |-> Filename(new[pulled[k]]),
                         checksum |-> checksum[new[pulled[k]].md5],
                         md5 |-> new[pulled[k]].md5]],
        raises |-> "none", raisedNo |-> 0]

\* What a handler call may raise: the exception _handle catches, or another.
Excs == {"ValueError", "Exception"}

\* Variant: the number is added to the delivered set before post is called.
_parse_thread_raise_marked(w, posts, dl, k, exc) ==
    LET new == NotHandled(posts, obj[w].posts_handled)
        done == _parse_thread(w, SubSeq(new, 1, k - 1), dl)
    IN [done EXCEPT !.raises = exc, !.raisedNo = new[k].no,
                    !.posts_handled = @ \cup {new[k].no}]

\* ThreadWatcher._parse_thread when handler.post raises exc for the k-th
\* unhandled post: the loop has run in full for the posts before it, and
\* self._posts_handled.add is not reached for this one.
_parse_thread_raise(w, posts, dl, k, exc) ==
    LET new == NotHandled(posts, obj[w].posts_handled)
        done == _parse_thread(w, SubSeq(new, 1, k - 1), dl)
    IN [done EXCEPT !.raises = exc, !.raisedNo = new[k].no]

\* Variants: the timer is armed whatever the code; only after 200 and 304.
ReschedulesAlways(code) == TRUE
ReschedulesOnSuccess(code) == code \in {200, 304}

\* if not response.code == 404: add_timeout(...)
Reschedules(code) == code # 404

RECURSIVE CountIn(_, _)
CountIn(s, x) ==
    IF s = <<>> THEN 0 ELSE (IF Head(s) = x THEN 1 ELSE 0) + CountIn(Tail(s), x)

Range(s) == {s[i] : i \in DOMAIN s}

\* Variant: the fetch always carries the construction time.
IfModifiedSinceCreation(self) == CreationTime

\* HTTPRequest(self._url, if_modified_since=self._last_modified)
IfModifiedSince(self) == self.last_modified

\* ThreadWatcher.watch: the poll timer fires and the detail fetch is issued.
watch(w) ==
    /\ obj[w].pc = "timer"
    /\ obj' = [obj EXCEPT ![w].pc = "fetch"]
    /\ lastStep' = [NoStep EXCEPT !.kind = "watch", !.wid = w,
                       !.ims = IfModifiedSince(obj[w])]
    /\ UNCHANGED <<last200, fileVars, images, previous_threads, watchers, chanPc, imgFetches,
                   postCalls, prunedCalls, postAfterPruned, imgCalls, imgFailed>>

\* Variant: the fields are shared by all the watchers (class attributes).
IsSelfOrOther(w, v) == TRUE

\* self in a bound callback of watcher w: v is that object.
IsSelf(w, v) == v = w

\* The body of ThreadWatcher._handle, which hurr_durr/watcher.py and
\* hurr_durr/__init__.py share line for line: the detail fetch of watcher w
\* completes with r, and parsed is what self._parse_thread(thread) does.
HandleResponse(w, r, parsed) ==
    LET self == obj[w]
        t == self.thread_id
        ok == r.code = 200
        noHeader == ok /\ r.lm = NoHeader         \* KeyError leaves the callback
        parses == ok /\ ~noHeader /\ r.body.kind = "posts"
        noPosts == ok /\ ~noHeader /\ r.body.kind = "noposts"   \* KeyError
        res == IF parses THEN parsed
               ELSE [posts_handled |-> self.posts_handled, consulted |-> {},
                     posted |-> <<>>, asked |-> <<>>, fetches |-> <<>>,
                     raises |-> "none", raisedNo |-> 0]
        \* except ValueError: anything else leaves the callback
        raised == noHeader \/ noPosts \/ res.raises \notin {"none", "ValueError"}
        pruned == ~raised /\ ~Reschedules(r.code)
        timer == ~raised /\ Reschedules(r.code)
    IN
    /\ self.pc = "fetch"
    /\ obj' = [v \in DOMAIN obj |->
                 IF IsSelf(w, v)
                 THEN [obj[v] EXCEPT
                         !.last_modified = IF ok /\ ~noHeader THEN r.lm ELSE @,
                         !.posts_handled = res.posts_handled,
                         !.working = IF pruned THEN FALSE ELSE @,
                         !.pc = IF timer THEN "timer" ELSE "none"]
                 ELSE obj[v]]
    /\ imgFetches' = imgFetches \cup Range(res.fetches)
    /\ postCalls' = [postCalls EXCEPT
                       ![w] = [n \in PostNos |-> @[n] + CountIn(res.posted, n)]]
    /\ postAfterPruned' =
          IF res.posted # <<>> /\ prunedCalls[t] > 0
          THEN postAfterPruned \cup {t} ELSE postAfterPruned
    /\ prunedCalls' = [prunedCalls EXCEPT ![t] = IF pruned THEN @ + 1 ELSE @]
    /\ last200' = [last200 EXCEPT ![w] = IF ok THEN r.lm ELSE @]
    /\ lastStep' = [NoStep EXCEPT !.kind = "detail", !.wid = w, !.code = r.code,
                       !.body = r.body, !.parsed = parses, !.lm = r.lm,
                       !.raisedNo = res.raisedNo,
                       !.before = self.posts_handled,
                       !.posted = res.posted, !.asked = res.asked,
                       !.issued = [k \in DOMAIN res.fetches |-> res.fetches[k].filename]]
    /\ UNCHANGED <<fileVars, images, previous_threads, watchers, chanPc, imgCalls, imgFailed>>

\* ThreadWatcher._handle: the detail fetch of watcher w completes with r.
_handle(w, r, dl) == HandleResponse(w, r, _parse_thread(w, r.body.posts, dl))

\* The positions at which handler.post is called, and so may raise, while
\* watcher w handles response r.
RaisePoints(w, r) ==
    IF obj[w].pc = "fetch" /\ r.code = 200 /\ r.lm # NoHeader /\ r.body.kind = "posts"
    THEN DOMAIN NotHandled(r.body.posts, obj[w].posts_handled)
    ELSE {}

\* What handler.download_img may answer before the k-th unhandled post.
AnswersBefore(w, r, k) ==
    [Consulted(obj[w], SubSeq(NotHandled(r.body.posts, obj[w].posts_handled), 1, k - 1))
        -> BOOLEAN]

\* ThreadWatcher._handle when handler.post raises exc for the k-th unhandled
\* post of the document.
_handle_raise(w, r, dl, k, exc) ==
    /\ k \in RaisePoints(w, r)
    /\ HandleResponse(w, r, _parse_thread_raise(w, r.body.posts, dl, k, exc))

\* hurr_durr/__init__.py, ThreadWatcher._handle.
pkg_handle(w, r, dl) == HandleResponse(w, r, pkg_parse_thread(w, r.body.posts, dl))

\* Variant: the digest comparison is left out.
DigestUnchecked(code, data, sum) == code = 200

\* if response.code == 200 ... if m.hexdigest() == checksum
DigestOk(code, data, sum) == code = 200 /\ hexdigest[data] = sum

\* check_image, the callback made by ThreadWatcher._make_image_handler.
check_image(f, r) ==
    LET t == obj[f.wid].thread_id
        call == DigestOk(r.code, r.data, f.checksum)
    IN
    /\ f \in imgFetches
    /\ imgFetches' = imgFetches \ {f}
    /\ imgCalls' = [imgCalls EXCEPT ![t][f.filename] = IF call THEN @ + 1 ELSE @]
    /\ imgFailed' = IF call THEN imgFailed ELSE imgFailed \cup {<<f.wid, f.filename>>}
    /\ lastStep' = [NoStep EXCEPT !.kind = "image", !.wid = f.wid, !.code = r.code,
                       !.data = r.data, !.md5 = f.md5, !.img = call]
    /\ UNCHANGED <<last200, fileVars, images, previous_threads, watchers, chanPc, obj,
                   postCalls, prunedCalls, postAfterPruned>>

\* ----------------------------------------------------------- ChanWatcher
\* for page_obj in pages: for thread_obj in page_obj['threads']: curr_threads.add(...)
CurrThreads(pages) == UNION {Range(pages[i]) : i \in DOMAIN pages}

\* Variant: every listed thread counts as new.
NewThreadsAll(curr, prev) == curr

\* new_threads = curr_threads - self._previous_threads
NewThreads(curr, prev) == curr \ prev

\* A set of thread IDs in the order the spawn loop visits it.
RECURSIVE InOrder(_)
InOrder(S) ==
    IF S = {} THEN <<>>
    ELSE LET m == CHOOSE x \in S : \A y \in S : x <= y
         IN <<m>> \o InOrder(S \ {m})

\* Variant: stopped watchers stay in the collection.
StillWorkingAll(ws) == ws

\* self._watchers = filter(attrgetter('working'), self._watchers)
StillWorking(ws) == SelectSeq(ws, LAMBDA w : obj[w].working)

\* Variant: the body is used whatever the response says.
IndexOkUnchecked(r) == r.kind # "badshape"

\* response.code == 200 and loads(response.body) is a list of pages
IndexOk(r) == r.code = 200 /\ r.kind = "pages"

\* -------------------------------------------------- handlers.py FileHandler
sep == "/"
file_root == "root"

\* _get_date_string: time.strftime('%Y%m%d') on the day-th day of the run.
_get_date_string == "2014060" \o ToString(day)

\* The threads a handler is called for.
FileThreads == 1..MaxFileThread

\* The posts a handler is given, named by their number.
HeldPosts == 1..MaxHeldPost

\* '{tim}{ext}', the filename ThreadWatcher hands to img and download_img.
ImgNames == {ToString(f[1]) \o f[2] : f \in Filenames}

NoFiles == [x \in {} |-> 0]

NoCall == [op |-> "none", t |-> 0, f |-> "", ret |-> FALSE, raised |-> FALSE]

\* os.path.exists
exists(path) == path \in dirs \cup DOMAIN jsonFiles \cup DOMAIN imgFiles

\* FileHandler._get_thread_root
_get_thread_root(thread_id) ==
    IF thread_id \notin DOMAIN _thread_roots
    THEN file_root \o sep \o _get_date_string \o sep \o ToString(thread_id)
    ELSE _thread_roots[thread_id]

\* os.makedirs of a thread root: the date directory and the thread directory.
makedirs(thread_file_root) ==
    dirs \cup {file_root \o sep \o _get_date_string, thread_file_root}

\* dict assignment and del
Put(d, k, v) == [x \in DOMAIN d \cup {k} |-> IF x = k THEN v ELSE d[x]]
Del(d, k) == [x \in DOMAIN d \ {k} |-> d[x]]

\* Variant: the new post goes to the front of the list.
HeldFirst(list, new_post) == <<new_post>> \o list

\* self._active_threads[thread_id].append(new_post)
Held(list, new_post) == Append(list, new_post)

\* FileHandler.__init__ on a file root that may already hold files: the
\* dicts start empty, the disk is left as it is.
FileHandler_init ==
    /\ _active_threads = <<>>
    /\ _thread_roots = <<>>
    /\ postLog = [t \in FileThreads |-> <<>>]

\* The process is started again over the same file root.
Restart ==
    /\ fhStep.op # "none"
    /\ _active_threads' = <<>>
    /\ _thread_roots' = <<>>
    /\ postLog' = [t \in FileThreads |-> <<>>]
    /\ fhStep' = [NoCall EXCEPT !.op = "init"]
    /\ UNCHANGED <<watchVars, day, dirs, jsonFiles, imgFiles, stored>>

\* Midnight passes.
NewDay ==
    /\ day < MaxDay
    /\ day' = day + 1
    /\ fhStep' = [NoCall EXCEPT !.op = "newday"]
    /\ UNCHANGED <<watchVars, _active_threads, _thread_roots, dirs, jsonFiles,
                   imgFiles, postLog, stored>>

\* FileHandler.post
FileHandler_post(thread_id, new_post) ==
    LET held == thread_id \in DOMAIN _active_threads
        thread_file_root == _get_thread_root(thread_id)
        list == IF held THEN _active_threads[thread_id] ELSE <<>>
    IN
    /\ Len(postLog[thread_id]) < MaxHeld
    /\ dirs' = IF held THEN dirs ELSE makedirs(thread_file_root)
    /\ _thread_roots' = IF held THEN _thread_roots
                        ELSE Put(_thread_roots, thread_id, thread_file_root)
    /\ _active_threads' = Put(_active_threads, thread_id, Held(list, new_post))
    /\ postLog' = [postLog EXCEPT ![thread_id] = Append(@, new_post)]
    /\ fhStep' = [NoCall EXCEPT !.op = "post", !.t = thread_id]
    /\ UNCHANGED <<watchVars, day, jsonFiles, imgFiles, stored>>

\* FileHandler.pruned
FileHandler_pruned(thread_id) ==
    LET filename == _get_thread_root(thread_id) \o sep \o ToString(thread_id) \o ".json"
    IN
    /\ IF thread_id \in DOMAIN _active_threads
       THEN /\ jsonFiles' = Put(jsonFiles, filename, _active_threads[thread_id])
            /\ _active_threads' = Del(_active_threads, thread_id)
            /\ _thread_roots' = Del(_thread_roots, thread_id)
       ELSE UNCHANGED <<jsonFiles, _active_threads, _thread_roots>>
    /\ postLog' = [postLog EXCEPT ![thread_id] = <<>>]
    /\ fhStep' = [NoCall EXCEPT !.op = "pruned", !.t = thread_id]
    /\ UNCHANGED <<watchVars, day, dirs, imgFiles, stored>>

\* FileHandler.img; open raises when the thread directory is not there.
FileHandler_img(thread_id, filename, data) ==
    LET thread_root == _get_thread_root(thread_id)
        full_filename == thread_root \o sep \o filename
        opened == thread_root \in dirs
    IN
    /\ imgFiles' = IF opened THEN Put(imgFiles, full_filename, data) ELSE imgFiles
    /\ stored' = IF opened THEN stored \cup {<<thread_id, filename>>} ELSE stored
    /\ fhStep' = [NoCall EXCEPT !.op = "img", !.t = thread_id, !.f = filename,
                      !.raised = ~opened]
    /\ UNCHANGED <<watchVars, _active_threads, _thread_roots, day, dirs,
                   jsonFiles, postLog>>

\* FileHandler.download_img
FileHandler_download_img(thread_id, filename) ==
    /\ fhStep' = [NoCall EXCEPT
                    !.op = "download_img", !.t = thread_id, !.f = filename,
                    !.ret = ~exists(file_root \o sep \o ToString(thread_id)
                                       \o sep \o filename)]
    /\ UNCHANGED <<watchVars, _active_threads, _thread_roots, day, dirs,
                   jsonFiles, imgFiles, postLog, stored>>

\* ------------------------------------------------------------ ChanWatcher
\* ChanWatcher.start: the first index fetch is issued.
start ==
    /\ chanPc = "init"
    /\ chanPc' = "fetch"
    /\ lastStep' = [NoStep EXCEPT !.kind = "start"]
    /\ UNCHANGED <<last200, fileVars, images, previous_threads, watchers, obj, imgFetches,
                   postCalls, prunedCalls, postAfterPruned, imgCalls, imgFailed>>

\* ChanWatcher._watch_threads: the board timer fires.
_watch_threads ==
    /\ chanPc = "timer"
    /\ chanPc' = "fetch"
    /\ lastStep' = [NoStep EXCEPT !.kind = "watch_threads"]
    /\ UNCHANGED <<last200, fileVars, images, previous_threads, watchers, obj, imgFetches,
                   postCalls, prunedCalls, postAfterPruned, imgCalls, imgFailed>>

\* ChanWatcher._handle_threads: the index fetch completes with r.
_handle_threads(r) ==
    LET kept == StillWorking(watchers)
        parses == IndexOk(r)
        raised == r.code = 200 /\ r.kind = "badshape"   \* not a ValueError
        curr == CurrThreads(r.pages)
        new == IF parses THEN InOrder(NewThreads(curr, previous_threads)) ELSE <<>>
        made == [k \in DOMAIN new |->
                    [NewWatcher(new[k], images) EXCEPT !.pc = "fetch"]]
        ids == [k \in DOMAIN new |-> Len(obj) + k]
    IN
    /\ chanPc = "fetch"
    /\ Len(obj) + Len(new) <= MaxSpawn
    /\ watchers' = kept \o ids
    /\ obj' = obj \o made
    /\ previous_threads' = IF parses THEN curr ELSE previous_threads
    /\ chanPc' = IF raised THEN "none" ELSE "timer"
    /\ postCalls' = postCalls \o [k \in DOMAIN new |-> [n \in PostNos |-> 0]]
    /\ last200' = last200 \o [k \in DOMAIN new |-> CreationTime]
    /\ lastStep' = [NoStep EXCEPT !.kind = "index", !.code = r.code,
                       !.body = [kind |-> r.kind, posts |-> <<>>],
                       !.parsed = parses, !.nobj = Len(obj),
                       !.pages = r.pages, !.prev = previous_threads,
                       !.spawned = ids,
                       !.ims = IF new = <<>> THEN NoHeader
                               ELSE IfModifiedSince(made[1])]
    /\ UNCHANGED <<fileVars, images, imgFetches, prunedCalls, postAfterPruned, imgCalls,
                   imgFailed>>

\* ------------------------------------------------------------ specification
\* The state after ChanWatcher.__init__(handler, board, images).
Init ==
    /\ images \in BOOLEAN
    /\ previous_threads = {}
    /\ watchers = <<>>
    /\ chanPc = "init"
    /\ obj = <<>>
    /\ imgFetches = {}
    /\ postCalls = <<>>
    /\ prunedCalls = [t \in ThreadIds |-> 0]
    /\ postAfterPruned = {}
    /\ imgCalls = [t \in ThreadIds |-> [f \in Filenames |-> 0]]
    /\ imgFailed = {}
    /\ lastStep = NoStep
    /\ last200 = <<>>
    /\ FileHandler_init
    /\ day = 1
    /\ dirs = {file_root}
    /\ jsonFiles = NoFiles
    /\ imgFiles = NoFiles
    /\ stored = {}
    /\ fhStep = NoCall

\* The callbacks of the loop, with the upstream answering index fetches from
\* IdxR and detail fetches from DetR.
Step(IdxR, DetR) ==
    \/ start
    \/ _watch_threads
    \/ \E r \in IdxR : _handle_threads(r)
    \/ \E w \in DOMAIN obj : watch(w)
    \/ \E w \in DOMAIN obj, r \in DetR :
          \E dl \in Answers(w, r) : _handle(w, r, dl)
    \/ \E f \in imgFetches, r \in ImageResponses : check_image(f, r)

\* The whole program: any index; the detail endpoint answers 304, 404, or 200
\* with the Last-Modified header 1 and a document that is empty or holds
\* post 1, with or without an attachment.
PlainResponses ==
    {r \in DetailResponses :
        /\ r.code \in {200, 304, 404}
        /\ r.code = 200 => r.lm = 1 /\ r.body.kind = "posts"
        /\ Len(r.body.posts) <= 1
        /\ \A i \in DOMAIN r.body.posts : r.body.posts[i].no = 1}

Next == Step(IndexResponses, PlainResponses)

Spec == Init /\ [][Next]_vars

\* One thread: the index lists thread 1 alone whenever it answers; any detail
\* document and any attachment response.
SoloIndexResponses ==
    {r \in IndexResponses : r.kind # "badshape" /\ (r.kind = "pages" => r.pages = <<(<<1>>)>>)}

NextThread == Step(SoloIndexResponses, DetailResponses)

SpecThread == Init /\ [][NextThread]_vars

\* One thread, with a handler whose post may raise; the upstream sends one
\* Last-Modified value.
RaiseResponses == {r \in DetailResponses : r.lm \in {NoHeader, 1}}

NextRaise ==
    \/ Step(SoloIndexResponses, RaiseResponses)
    \/ \E w \in DOMAIN obj, r \in RaiseResponses :
          \E k \in RaisePoints(w, r), exc \in Excs :
             \E dl \in AnswersBefore(w, r, k) : _handle_raise(w, r, dl, k, exc)

SpecRaise == Init /\ [][NextRaise]_vars

\* One thread under fair scheduling: every pending timer fires and every
\* outstanding fetch completes. The detail endpoint answers as in Spec, or
\* with a 200 whose JSON body has no 'posts'.
LiveResponses ==
    PlainResponses
        \cup {r \in DetailResponses :
                r.code = 200 /\ r.lm = 1 /\ r.body.kind = "noposts"}

NextLive == Step(SoloIndexResponses, LiveResponses)

Fairness ==
    /\ WF_vars(start)
    /\ WF_vars(_watch_threads)
    /\ WF_vars(\E r \in SoloIndexResponses : _handle_threads(r))
    /\ WF_vars(\E w \in DOMAIN obj : watch(w))
    /\ WF_vars(\E w \in DOMAIN obj, r \in LiveResponses :
                  \E dl \in Answers(w, r) : _handle(w, r, dl))
    /\ WF_vars(\E f \in imgFetches, r \in ImageResponses : check_image(f, r))

SpecLive == Init /\ [][NextLive]_vars /\ Fairness

\* One thread watched through the classes of hurr_durr/__init__.py, which
\* differ from those of hurr_durr/watcher.py in _parse_thread alone.
NextPackage ==
    \/ start
    \/ _watch_threads
    \/ \E r \in SoloIndexResponses : _handle_threads(r)
    \/ \E w \in DOMAIN obj : watch(w)
    \/ \E w \in DOMAIN obj, r \in DetailResponses :
          \E dl \in Answers(w, r) : pkg_handle(w, r, dl)
    \/ \E f \in imgFetches, r \in ImageResponses : check_image(f, r)

SpecPackage == Init /\ [][NextPackage]_vars

\* A FileHandler alone, called in any order, across midnights and restarts.
NextFile ==
    \/ \E t \in FileThreads, p \in HeldPosts : FileHandler_post(t, p)
    \/ \E t \in FileThreads : FileHandler_pruned(t)
    \/ \E t \in FileThreads, f \in ImgNames, d \in Data : FileHandler_img(t, f, d)
    \/ \E t \in FileThreads, f \in ImgNames : FileHandler_download_img(t, f)
    \/ NewDay
    \/ Restart

SpecFile == Init /\ [][NextFile]_vars

\* ------------------------------------------------------------------ claims
\* Calls of handler.post for thread t and post number n, over all watchers.
RECURSIVE ItemPostCalls(_, _, _)
ItemPostCalls(t, n, k) ==
    IF k = 0 THEN 0
    ELSE (IF obj[k].thread_id = t THEN postCalls[k][n] ELSE 0) + ItemPostCalls(t, n, k - 1)

\* The step just taken completed the detail fetch of watcher w.
HandledDetail(w) == obj[w].pc = "fetch" /\ obj'[w].pc # "fetch"

\* C1: one ThreadWatcher never calls handler.post twice for the same post
\* number, whatever detail documents it handles.
C1_PostOncePerWatcher ==
    \A w \in DOMAIN obj : \A n \in PostNos : postCalls[w][n] <= 1

\* C1 witness: a document listing an already delivered post number again,
\* now with an attachment, has just been handled.
C1_Witness ==
    /\ lastStep.kind = "detail" /\ lastStep.parsed
    /\ \E i \in DOMAIN lastStep.body.posts :
          /\ lastStep.body.posts[i].no \in lastStep.before
          /\ lastStep.body.posts[i].tim # NoTim
          /\ postCalls[lastStep.wid][lastStep.body.posts[i].no] = 1

\* C2: over the whole run handler.post is called at most once per
\* (thread, post number), also when a thread leaves the index and is listed
\* again.
C2_PostOncePerItem ==
    \A t \in ThreadIds : \A n \in PostNos : ItemPostCalls(t, n, Len(obj)) <= 1

\* C3: handler.pruned is called at most once per thread, and no post call
\* for the thread follows it.
C3_PrunedOnceThenSilent ==
    \A t \in ThreadIds : prunedCalls[t] <= 1 /\ t \notin postAfterPruned

\* C4: handling a 404 calls pruned exactly once in that step and stops the
\* watcher; a stopped watcher never fetches or arms a timer again.
C4_Stop404 ==
    [][\A w \in DOMAIN obj :
          /\ (obj[w].working /\ HandledDetail(w) /\ lastStep'.code = 404)
                => /\ prunedCalls'[obj[w].thread_id] = prunedCalls[obj[w].thread_id] + 1
                   /\ ~obj'[w].working
                   /\ obj'[w].pc = "none"
          /\ ~obj[w].working
                => /\ obj[w].pc = "none"
                   /\ obj'[w] = obj[w]
                   /\ (lastStep'.kind \in {"detail", "watch"} => lastStep'.wid # w)]_vars

\* C4 witness: a watcher was stopped by its 404 and the loop went on (the
\* board timer fired afterwards).
C4_Witness ==
    /\ lastStep.kind = "watch_threads"
    /\ \E w \in DOMAIN obj :
          ~obj[w].working /\ obj[w].pc = "none" /\ prunedCalls[obj[w].thread_id] = 1

\* C5: the board poller's collection never holds two working watchers of the
\* same thread.
C5_OneLivePerThread ==
    \A i, j \in DOMAIN watchers :
        (i # j /\ obj[watchers[i]].working /\ obj[watchers[j]].working)
            => obj[watchers[i]].thread_id # obj[watchers[j]].thread_id

\* C6: a cycle with a 200 and parsable index constructs and starts exactly one
\* watcher for each thread of the index (over all pages) that is not in the
\* previously-seen set, none for another thread, and then the previously-seen
\* set is the index set.
C6_SpawnExactlyNew ==
    (lastStep.kind = "index" /\ lastStep.code = 200 /\ lastStep.body.kind = "pages")
        => LET listed == {t \in ThreadIds :
                             \E i \in DOMAIN lastStep.pages :
                                 \E j \in DOMAIN lastStep.pages[i] :
                                     lastStep.pages[i][j] = t}
               made == (lastStep.nobj + 1)..Len(obj)
           IN /\ previous_threads = listed
              /\ \A t \in listed \ lastStep.prev :
                    Cardinality({w \in made : obj[w].thread_id = t}) = 1
              /\ \A w \in made :
                    /\ obj[w].thread_id \in listed \ lastStep.prev
                    /\ obj[w].pc = "fetch"
                    /\ obj[w].working
                    /\ \E k \in DOMAIN watchers : watchers[k] = w

\* C6 witness: the index went from {1} to {2}: one watcher (thread 2) was
\* made and thread 1 left the previously-seen set.
C6_Witness ==
    /\ lastStep.kind = "index" /\ lastStep.parsed
    /\ Len(lastStep.pages) = 2
    /\ lastStep.prev = {1}
    /\ previous_threads = {2}
    /\ Len(obj) = lastStep.nobj + 1

\* C7: on a 200 with a parsable body, handler.post is called for exactly the
\* posts of the document whose numbers are not yet delivered, in document
\* order.
C7_PostExactlyNewInOrder ==
    (lastStep.kind = "detail" /\ lastStep.parsed)
        => LET doc == lastStep.body.posts
               posted == lastStep.posted
               fresh == {i \in DOMAIN doc : doc[i].no \notin lastStep.before}
           IN /\ Len(posted) = Cardinality(fresh)
              /\ \A i \in fresh : \E k \in DOMAIN posted : posted[k] = doc[i].no
              /\ \A i, j \in fresh :
                    i < j => \E k, l \in DOMAIN posted :
                                k < l /\ posted[k] = doc[i].no /\ posted[l] = doc[j].no

\* C7 witness: after posts 1 and 2 were delivered, the document [1, 2, 3]
\* produced the single call post(3).
C7_Witness ==
    /\ lastStep.kind = "detail" /\ lastStep.parsed
    /\ lastStep.before = {1, 2}
    /\ [i \in DOMAIN lastStep.body.posts |-> lastStep.body.posts[i].no] = <<1, 2, 3>>
    /\ lastStep.posted = <<3>>

\* C8: handler.img is called only when an attachment fetch completes with
\* code 200 and a body whose MD5 digest is the digest decoded from the post's
\* 'md5' field; a completion with another code or digest calls nothing.
C8_ImgOnlyVerified ==
    [][/\ imgCalls' # imgCalls
          => /\ imgFetches' # imgFetches /\ imgFetches' \subseteq imgFetches
             /\ lastStep'.code = 200
             /\ md5[lastStep'.data] = b64decode(lastStep'.md5)
       /\ (/\ imgFetches' # imgFetches /\ imgFetches' \subseteq imgFetches
           /\ (lastStep'.code # 200 \/ md5[lastStep'.data] # b64decode(lastStep'.md5)))
          => imgCalls' = imgCalls]_vars

\* C8 witness: one fetch delivered its attachment after another had a digest
\* mismatch.
C8_Witness ==
    /\ lastStep.kind = "image" /\ lastStep.img /\ lastStep.code = 200
    /\ imgFailed # {}
    /\ \E t \in ThreadIds : \E f \in Filenames : imgCalls[t][f] = 1

\* C9: handler.img is called at most once per (thread, filename) over the
\* whole run, also when two posts of a document name the same file.
C9_ImgOncePerFile ==
    \A t \in ThreadIds : \A f \in Filenames : imgCalls[t][f] <= 1

\* C10: after a fetch of a file failed (mismatch or non-200), a later poll
\* whose document still holds a post naming the file, with download_img not
\* answering false, fetches the file again.
C10_RetryAfterFailure ==
    (lastStep.kind = "detail" /\ lastStep.parsed /\ images)
        => \A i \in DOMAIN lastStep.body.posts :
              LET p == lastStep.body.posts[i]
              IN (/\ p.tim # NoTim
                  /\ <<lastStep.wid, Filename(p)>> \in imgFailed
                  /\ \A k \in DOMAIN lastStep.asked :
                        lastStep.asked[k] # <<Filename(p), FALSE>>)
                    => \E k \in DOMAIN lastStep.issued : lastStep.issued[k] = Filename(p)

\* C11: a detail response that is an error (neither 200 nor 404) or a 200
\* with a malformed body changes neither the delivered set nor the
\* last-modified marker, calls no handler operation, and arms the poll timer.
C11_ErrorNoMutation ==
    [][\A w \in DOMAIN obj :
          (/\ HandledDetail(w)
           /\ \/ lastStep'.code \notin {200, 404}
              \/ lastStep'.code = 200 /\ lastStep'.body.kind = "malformed")
             => /\ obj'[w].posts_handled = obj[w].posts_handled
                /\ obj'[w].last_modified = obj[w].last_modified
                /\ postCalls' = postCalls
                /\ prunedCalls' = prunedCalls
                /\ imgCalls' = imgCalls
                /\ lastStep'.asked = <<>>
                /\ obj'[w].pc = "timer"]_vars

\* C12: a watcher stops working only in a step that handles a 404 detail
\* response; every other response leaves working as it was.
C12_StopsOnlyOn404 ==
    [][\A w \in DOMAIN obj :
          /\ (obj[w].working /\ ~obj'[w].working)
                => HandledDetail(w) /\ lastStep'.code = 404
          /\ (HandledDetail(w) /\ lastStep'.code # 404)
                => obj'[w].working = obj[w].working]_vars

\* C12 witness: a watcher that handled a 200 earlier has just handled a 599
\* and is still working, with its timer armed.
C12_Witness ==
    /\ lastStep.kind = "detail" /\ lastStep.code = 599
    /\ obj[lastStep.wid].working
    /\ obj[lastStep.wid].pc = "timer"
    /\ obj[lastStep.wid].posts_handled # {}

\* C13: after a detail response with a code other than 404, whatever its
\* body, the next poll of the thread is scheduled.
C13_AlwaysRescheduled ==
    (lastStep.kind = "detail" /\ lastStep.code # 404)
        => obj[lastStep.wid].pc = "timer"

\* C14: with images = False no watcher ever consults download_img, issues an
\* attachment fetch or calls img.
C14_NoImagesWhenOff ==
    ~images
        => /\ imgFetches = {}
           /\ \A t \in ThreadIds : \A f \in Filenames : imgCalls[t][f] = 0
           /\ lastStep.asked = <<>>
           /\ lastStep.issued = <<>>
           /\ lastStep.kind # "image"

\* C14 witness: with images off, a new post that names an attachment has
\* just been delivered.
C14_Witness ==
    /\ ~images
    /\ lastStep.kind = "detail" /\ lastStep.parsed
    /\ \E i \in DOMAIN lastStep.body.posts :
          /\ lastStep.body.posts[i].tim # NoTim
          /\ lastStep.body.posts[i].no \notin lastStep.before
          /\ postCalls[lastStep.wid][lastStep.body.posts[i].no] = 1

\* The positions of the document handled last at which an attachment fetch
\* is a candidate: a new post, fetching enabled, an attachment named, the
\* filename not in the fetched set.
Candidates ==
    {i \in DOMAIN lastStep.body.posts :
        /\ lastStep.parsed
        /\ images
        /\ lastStep.body.posts[i].no \notin lastStep.before
        /\ lastStep.body.posts[i].tim # NoTim
        /\ <<lastStep.body.posts[i].tim, lastStep.body.posts[i].ext>>
              \notin obj[lastStep.wid].downloaded_pictures}

\* C15: download_img is consulted once for each candidate, in document
\* order, and a fetch is issued for exactly the candidates it answered true
\* for.
C15_FetchOnlyWhenAllHold ==
    lastStep.kind = "detail"
        => LET doc == lastStep.body.posts
               cand == SelectIdx(1, Len(doc), Candidates)
               yes == SelectSeq(lastStep.asked, LAMBDA a : a[2])
           IN /\ Len(lastStep.asked) = Len(cand)
              /\ \A k \in DOMAIN cand :
                    lastStep.asked[k][1] = <<doc[cand[k]].tim, doc[cand[k]].ext>>
              /\ lastStep.issued = [k \in DOMAIN yes |-> yes[k][1]]

\* C15 witness: of two candidates in one document, one was answered true and
\* fetched, the other answered false and not fetched.
C15_Witness ==
    /\ lastStep.kind = "detail" /\ lastStep.parsed
    /\ Len(lastStep.asked) = 2
    /\ lastStep.asked[1][2] /\ ~lastStep.asked[2][2]
    /\ Len(lastStep.issued) = 1

\* C16: the ThreadWatcher of hurr_durr/__init__.py issues an attachment fetch
\* for a filename only when download_img answered True for it.
C16_PackageFetchOnlyOnTrue ==
    lastStep.kind = "detail"
        => \A k \in DOMAIN lastStep.issued :
              \E j \in DOMAIN lastStep.asked :
                 lastStep.asked[j] = <<lastStep.issued[k], TRUE>>

\* C17: an index response that is not 200, or whose body is not JSON, leaves
\* the previously-seen set as it was, spawns no watcher and arms the board
\* timer.
C17_IndexFailureSkipsDiff ==
    (lastStep.kind = "index"
        /\ (lastStep.code # 200 \/ lastStep.body.kind = "malformed"))
        => /\ previous_threads = lastStep.prev
           /\ Len(obj) = lastStep.nobj
           /\ lastStep.spawned = <<>>
           /\ chanPc = "timer"

\* C17 witness: a 200 index with a body that is not JSON was handled while a
\* thread was already known.
C17_Witness ==
    /\ lastStep.kind = "index" /\ lastStep.code = 200
    /\ lastStep.body.kind = "malformed"
    /\ previous_threads # {}
    /\ Len(obj) > 0

\* C18: handling an index response, whether it succeeds or fails, drops the
\* stopped watchers from the collection and keeps the working ones; when the
\* callback is over every watcher of the collection is working.
C18_StoppedReaped ==
    [][(chanPc = "fetch" /\ chanPc' # "fetch")
          => /\ \A k \in DOMAIN watchers' : obj'[watchers'[k]].working
             /\ \A k \in DOMAIN watchers :
                   obj[watchers[k]].working
                      <=> \E l \in DOMAIN watchers' : watchers'[l] = watchers[k]]_vars

\* C18 witness: a failed index response has just dropped a stopped watcher.
C18_Witness ==
    /\ lastStep.kind = "index" /\ lastStep.code # 200
    /\ \E w \in DOMAIN obj :
          /\ ~obj[w].working
          /\ \A k \in DOMAIN watchers : watchers[k] # w

\* '{thread_root}/{thread_id}.json' of a thread whose first post came on day d.
ThreadJson(d, t) ==
    file_root \o sep \o "2014060" \o ToString(d) \o sep \o ToString(t)
        \o sep \o ToString(t) \o ".json"

\* C19: FileHandler holds the posts of a thread in memory, in call order,
\* until pruned; pruned(t) after post(t,p1)..post(t,pn) writes exactly
\* [p1..pn] to the thread's file and drops t from _active_threads and
\* _thread_roots; pruned(t) for a t without posts writes nothing and changes
\* no state.
C19_HeldUntilPruned ==
    [][/\ \A t \in FileThreads :
             postLog[t] # <<>>
                => t \in DOMAIN _active_threads /\ _active_threads[t] = postLog[t]
       /\ \A t \in FileThreads :
             (fhStep'.op = "pruned" /\ fhStep'.t = t)
                => IF postLog[t] # <<>>
                   THEN /\ \E d \in 1..day :
                              jsonFiles' = Put(jsonFiles, ThreadJson(d, t), postLog[t])
                        /\ t \notin DOMAIN _active_threads'
                        /\ t \notin DOMAIN _thread_roots'
                        /\ UNCHANGED <<dirs, imgFiles>>
                   ELSE UNCHANGED <<_active_threads, _thread_roots, dirs,
                                    jsonFiles, imgFiles>>]_vars

\* C19 witness: posts 2 and 1 were given on the first day and the thread was
\* pruned on the second; its file of the first day holds them in that order
\* and the thread is no longer held.
C19_Witness ==
    /\ fhStep.op = "pruned" /\ fhStep.t = 1
    /\ day = 2
    /\ ThreadJson(1, 1) \in DOMAIN jsonFiles
    /\ jsonFiles[ThreadJson(1, 1)] = <<2, 1>>
    /\ 1 \notin DOMAIN _active_threads
    /\ 1 \notin DOMAIN _thread_roots

\* C20: download_img(t, f) returns False once img has stored an attachment
\* for (t, f), and True while none has been stored.
C20_DownloadAnswersStored ==
    fhStep.op = "download_img"
        => (fhStep.ret <=> <<fhStep.t, fhStep.f>> \notin stored)

\* C21: every detail fetch carries the Last-Modified value of the most
\* recent 200 response its watcher has handled, or the construction time if
\* it has handled none; the marker changes only in a step that handles a 200
\* response.
C21_ConditionalOnLast200 ==
    [][/\ lastStep'.kind = "watch" => lastStep'.ims = last200'[lastStep'.wid]
       /\ (lastStep'.kind = "index" /\ lastStep'.spawned # <<>>)
             => lastStep'.ims = CreationTime
       /\ \A w \in DOMAIN obj :
             obj'[w].last_modified # obj[w].last_modified
                => HandledDetail(w) /\ lastStep'.code = 200]_vars

\* C21 witness: a watcher that has handled 200 responses and delivered two
\* posts issues a fetch that carries a Last-Modified value of the upstream.
C21_Witness ==
    /\ lastStep.kind = "watch"
    /\ lastStep.ims = MaxLastMod
    /\ last200[lastStep.wid] = MaxLastMod
    /\ Cardinality(obj[lastStep.wid].posts_handled) >= 2

\* C22: when handler.post raises for a post, that post's number is not in
\* the delivered set afterwards, and the numbers delivered earlier in the
\* same document are.
C22_RaisedPostNotMarked ==
    (lastStep.kind = "detail" /\ lastStep.raisedNo # 0)
        => /\ lastStep.raisedNo \notin obj[lastStep.wid].posts_handled
           /\ obj[lastStep.wid].posts_handled
                 = lastStep.before \cup Range(lastStep.posted)

\* C22 witness: post raised for the second new post of a document, after the
\* first was delivered.
C22_Witness ==
    /\ lastStep.kind = "detail"
    /\ lastStep.raisedNo # 0
    /\ lastStep.posted # <<>>
    /\ lastStep.before # {}

\* C23: after pruned was called for a thread, no response that completes
\* later makes a handler.post or handler.img call for it.
C23_SilentAfterPruned ==
    /\ (lastStep.kind = "image" /\ lastStep.img)
          => prunedCalls[obj[lastStep.wid].thread_id] = 0
    /\ (lastStep.kind = "detail" /\ lastStep.posted # <<>>)
          => prunedCalls[obj[lastStep.wid].thread_id] = 0

\* C24: a step that handles a response for one watcher leaves the delivered
\* set, fetched set, last-modified marker and working flag of every other
\* watcher unchanged, and leaves the previously-seen set and the watcher
\* collection unchanged.
C24_WatchersIsolated ==
    [][\A w \in DOMAIN obj :
          (HandledDetail(w) \/ (lastStep'.kind = "image" /\ lastStep'.wid = w))
             => /\ \A v \in DOMAIN obj \ {w} :
                      /\ obj'[v].posts_handled = obj[v].posts_handled
                      /\ obj'[v].downloaded_pictures = obj[v].downloaded_pictures
                      /\ obj'[v].last_modified = obj[v].last_modified
                      /\ obj'[v].working = obj[v].working
                /\ previous_threads' = previous_threads
                /\ watchers' = watchers]_vars

\* C24 witness: the watchers of two different threads have both delivered
\* posts, and one of them has just handled a response.
C24_Witness ==
    /\ lastStep.kind = "detail"
    /\ Len(obj) = 2
    /\ obj[1].thread_id # obj[2].thread_id
    /\ obj[1].posts_handled # {} /\ obj[2].posts_handled # {}
    /\ obj[1].working # obj[2].working

\* C25: under fair scheduling, if from some point on every detail fetch of
\* the thread is answered with 404, its watcher is eventually stopped with
\* pruned called and is eventually out of the board poller's collection.
C25_PrunedThreadReaped ==
    (/\ <>(Len(obj) > 0)
     /\ <>[][lastStep'.kind = "detail" => lastStep'.code = 404]_vars)
        => <>(/\ Len(obj) > 0
              /\ ~obj[1].working
              /\ prunedCalls[obj[1].thread_id] > 0
              /\ \A k \in DOMAIN watchers : watchers[k] # 1)

\* C26: after start the board poller always has an index fetch outstanding
\* or a board timer pending, whatever the index responses were.
C26_BoardNeverStops ==
    chanPc # "init" => chanPc \in {"fetch", "timer"}

\* C27: the fetched set of a watcher holds exactly the filenames that were
\* verified and delivered through handler.img.
C27_FetchedSetIsDelivered ==
    \A w \in DOMAIN obj :
        obj[w].downloaded_pictures
            = {f \in Filenames : imgCalls[obj[w].thread_id][f] > 0}

\* C28: the delivered set of a watcher is the set of post numbers for which
\* its handler.post call has completed; it starts empty and never loses an
\* element.
C28_DeliveredSetIsPosted ==
    [][\A w \in DOMAIN obj' :
          /\ obj'[w].posts_handled = {n \in PostNos : postCalls'[w][n] > 0}
          /\ w \in DOMAIN obj => obj[w].posts_handled \subseteq obj'[w].posts_handled
          /\ w \notin DOMAIN obj => obj'[w].posts_handled = {}]_vars

\* C28 witness: a watcher holds a delivered post, and handler.post has just
\* raised for another one.
C28_Witness ==
    /\ lastStep.kind = "detail"
    /\ lastStep.raisedNo # 0
    /\ Cardinality(obj[lastStep.wid].posts_handled) >= 2

\* C29: a started watcher that is working has a detail fetch outstanding or
\* a poll timer pending, and a stopped watcher has neither.
C29_OneFetchOrTimer ==
    \A w \in DOMAIN obj :
        /\ obj[w].working => obj[w].pc \in {"fetch", "timer"}
        /\ ~obj[w].working => obj[w].pc = "none"

====
